---- MODULE Spec2Model ----
(***************************************************************************)
(* Model of server.py: the EMG relay between one sensor (ESP32) connection *)
(* and the observing web clients.  One asyncio event loop runs the sensor  *)
(* handler, the observer handlers and the buffer flush task; a step of the *)
(* model is the code a task runs between two suspension points.            *)
(*                                                                         *)
(* The numeric kernels of scipy (butter, iirnotch, lfilter_zi, lfilter)    *)
(* lie outside the repository.  A coefficient set is represented by the    *)
(* arguments of its design call, a float by an integer, and lfilter by the *)
(* data flow of the transposed direct form over the residues modulo ZMod.  *)
(* Frequencies normalised by Nyquist are kept as fractions num/den.        *)
(***************************************************************************)
EXTENDS Integers, Sequences, FiniteSets, TLC

\* ---------------------------------------------------------------- constants
THROTTLE_INTERVAL_MS == 20
SAMPLE_RATE == 1650
FILTER_ORDER == 4
MAX_BUFFER_SIZE == 50
NOTCH_FREQ == 60
NOTCH_ORDER == 2

\* ------------------------------------------------------------------- bounds
ZMod == 5
NumClients == 2
MaxTime == 25
MaxMsgs == 2
MaxBufMsgs == 60
MaxWebMsgs == 2
MaxRecMsgs == 2

Clients == 1..NumClients
NoEntry == -1

\* ------------------------------------------------------------ filter design
Frac(n, d) == [num |-> n, den |-> d]

DesignError == [ok |-> FALSE, btype |-> "none", order |-> 0, wn |-> Frac(0, 1)]

\* signal.butter(order, Wn, btype): the critical frequency must satisfy
\* 0 < Wn < 1, otherwise ValueError
butter(order, wn, btype) ==
    IF 0 < wn.num /\ wn.num < wn.den
    THEN [ok |-> TRUE, btype |-> btype, order |-> order, wn |-> wn]
    ELSE DesignError

design_notch_filter(freq, sample_rate) ==
    [ok |-> TRUE, btype |-> "notch", order |-> NOTCH_ORDER,
     wn |-> Frac(2 * freq, sample_rate)]

design_bandpass_filter(low_freq, high_freq, sample_rate, order) ==
    LET nyquist == sample_rate \div 2
        low0    == Frac(high_freq, nyquist)
        high    == Frac(low_freq, nyquist)
        low     == IF low0.num >= low0.den THEN Frac(99, 100) ELSE low0
        lo      == butter(order, low, "low")
        hi      == butter(order, high, "high")
    IN  [ok |-> lo.ok /\ hi.ok, lp |-> lo, hp |-> hi]

\* a residue standing for the numeric content of a coefficient set
CoefCode(c) == (c.wn.num + c.wn.den + c.order + (IF c.btype = "high" THEN 1 ELSE 0)) % ZMod

\* signal.lfilter_zi(b, a): the steady state of the step response, a vector
\* of max(len(a), len(b)) - 1 = order entries determined by the coefficients
lfilter_zi(c) == [i \in 1..c.order |-> (CoefCode(c) + i) % ZMod]

\* signal.lfilter(b, a, [x], zi=zi) on one sample: transposed direct form,
\*   y = b0*x + z[1];  z'[i] = b[i]*x + z[i+1] - a[i]*y;  z'[n] = b[n]*x - a[n]*y
lfilter(c, x, z) ==
    LET n == Len(z)
        y == (CoefCode(c) + x + z[1]) % ZMod
    IN  [y  |-> y,
         zf |-> [i \in 1..n |->
                   IF i < n THEN (CoefCode(c) + i + x + z[i + 1] + y) % ZMod
                            ELSE (CoefCode(c) + i + x + y) % ZMod]]

\* the coefficient sets and the six delay lines initialize_filters assigns
\* when every design call succeeds
DesignedCoefs(fs) ==
    LET bp == design_bandpass_filter(fs.high_pass_cutoff, fs.low_pass_cutoff,
                                     SAMPLE_RATE, FILTER_ORDER)
    IN  [ok |-> bp.ok,
         notch |-> design_notch_filter(NOTCH_FREQ, SAMPLE_RATE),
         lp |-> bp.lp, hp |-> bp.hp]

SteadyState(cf) ==
    [notch_zi_ch1 |-> lfilter_zi(cf.notch), lp_zi_ch1 |-> lfilter_zi(cf.lp),
     hp_zi_ch1 |-> lfilter_zi(cf.hp),
     notch_zi_ch2 |-> lfilter_zi(cf.notch), lp_zi_ch2 |-> lfilter_zi(cf.lp),
     hp_zi_ch2 |-> lfilter_zi(cf.hp)]

\* the six delay lines and the stage each belongs to
Lines ==
    {"notch_zi_ch1", "lp_zi_ch1", "hp_zi_ch1",
     "notch_zi_ch2", "lp_zi_ch2", "hp_zi_ch2"}

StageOf(line) ==
    IF line \in {"notch_zi_ch1", "notch_zi_ch2"} THEN "notch"
    ELSE IF line \in {"lp_zi_ch1", "lp_zi_ch2"} THEN "lp" ELSE "hp"

Stages == {"notch", "lp", "hp"}

\* initialize_filters(): the notch coefficients are assigned first; when
\* design_bandpass_filter raises, nothing after it is assigned.  assigned
\* names the globals the call has written.
initialize_filters_keep(fs, oldcoefs, oldzi) ==
    LET d == DesignedCoefs(fs)
    IN  IF d.ok
        THEN [ok |-> TRUE,
              coefs |-> [notch |-> d.notch, lp |-> d.lp, hp |-> d.hp],
              zi |-> oldzi, assigned |-> Stages]
        ELSE [ok |-> FALSE,
              coefs |-> [oldcoefs EXCEPT !.notch = d.notch],
              zi |-> oldzi, assigned |-> {"notch"}]

initialize_filters(fs, oldcoefs, oldzi) ==
    LET d == DesignedCoefs(fs)
    IN  IF d.ok
        THEN [ok |-> TRUE,
              coefs |-> [notch |-> d.notch, lp |-> d.lp, hp |-> d.hp],
              zi |-> SteadyState(d), assigned |-> Stages \cup Lines]
        ELSE [ok |-> FALSE,
              coefs |-> [oldcoefs EXCEPT !.notch = d.notch],
              zi |-> oldzi, assigned |-> {"notch"}]

\* process_emg_data(data_ch1, data_ch2): notch (when enabled), low-pass,
\* high-pass, for channel 1 and then for channel 2
process_emg_data_shared(fs, cf, z, data_ch1, data_ch2) ==
    LET n1  == lfilter(cf.notch, data_ch1, z.notch_zi_ch1)
        x1  == IF fs.notch_enabled THEN n1.y ELSE data_ch1
        nz1 == IF fs.notch_enabled THEN n1.zf ELSE z.notch_zi_ch1
        l1  == lfilter(cf.lp, x1, z.lp_zi_ch1)
        h1  == lfilter(cf.hp, l1.y, z.hp_zi_ch1)
        n2  == lfilter(cf.notch, data_ch2, z.notch_zi_ch2)
        x2  == IF fs.notch_enabled THEN n2.y ELSE data_ch2
        nz2 == IF fs.notch_enabled THEN n2.zf ELSE z.notch_zi_ch2
        l2  == lfilter(cf.lp, x2, l1.zf)
        h2  == lfilter(cf.hp, l2.y, z.hp_zi_ch2)
    IN  [filtered_ch1 |-> h1.y, filtered_ch2 |-> h2.y,
         zi |-> [notch_zi_ch1 |-> nz1, lp_zi_ch1 |-> l1.zf, hp_zi_ch1 |-> h1.zf,
                 notch_zi_ch2 |-> nz2, lp_zi_ch2 |-> l2.zf, hp_zi_ch2 |-> h2.zf]]

process_emg_data(fs, cf, z, data_ch1, data_ch2) ==
    LET n1  == lfilter(cf.notch, data_ch1, z.notch_zi_ch1)
        x1  == IF fs.notch_enabled THEN n1.y ELSE data_ch1
        nz1 == IF fs.notch_enabled THEN n1.zf ELSE z.notch_zi_ch1
        l1  == lfilter(cf.lp, x1, z.lp_zi_ch1)
        h1  == lfilter(cf.hp, l1.y, z.hp_zi_ch1)
        n2  == lfilter(cf.notch, data_ch2, z.notch_zi_ch2)
        x2  == IF fs.notch_enabled THEN n2.y ELSE data_ch2
        nz2 == IF fs.notch_enabled THEN n2.zf ELSE z.notch_zi_ch2
        l2  == lfilter(cf.lp, x2, z.lp_zi_ch2)
        h2  == lfilter(cf.hp, l2.y, z.hp_zi_ch2)
    IN  [filtered_ch1 |-> h1.y, filtered_ch2 |-> h2.y,
         zi |-> [notch_zi_ch1 |-> nz1, lp_zi_ch1 |-> l1.zf, hp_zi_ch1 |-> h1.zf,
                 notch_zi_ch2 |-> nz2, lp_zi_ch2 |-> l2.zf, hp_zi_ch2 |-> h2.zf]]

\* the delay lines process_emg_data assigns, lines 131-144
LinesWritten(fs) ==
    IF fs.notch_enabled THEN Lines
    ELSE Lines \ {"notch_zi_ch1", "notch_zi_ch2"}

\* ------------------------------------------------------------------- state
VARIABLES
    filter_settings,      \* the settings dict
    coefs,                \* notch, lp and hp coefficient sets
    zi,                   \* the six delay lines
    has_mpu_data, pitch_angle, roll_angle,
    emg_data_buffer,      \* the list the global name is bound to
    iter,                 \* the list iterator of the flush in progress
    connected_clients,    \* the set of registered observers
    last_web_send_time,   \* throttle entry per client, NoEntry when absent
    webPc,                \* where each observer handler is
    espPc,                \* where the sensor handler is
    flushPc,              \* where the buffer_processor task is
    pending,              \* clients whose send a suspended task is awaiting
    now,                  \* time.time() in milliseconds
    nMsgs,                \* sensor messages read so far
    nSamples,             \* EMG samples built so far (arrival index)
    nWeb,                 \* observer messages read so far
    webLast,              \* the observer message the last step handled, if any
    bcast,                \* the calls of send_to_web_clients the last step made
    lastPassed,           \* history: id of the last sample broadcast before it
    passedOnce,           \* history: sample ids passed to broadcast
    passedTwice,          \* history: sample ids passed more than once
    sendTimes,            \* history: per client, the times a send was issued
    sinceClear,           \* history: samples appended since the last clear()
    flushPassed,          \* history: sample ids the current flush broadcast
    flushRemoved,         \* history: sample ids the last clear() removed
    atCancel,             \* history: sample ids buffered when cancel() ran
    finalFlushes,         \* history: runs of the final process_data_buffer
    espLast,              \* the sensor message the last step handled, if any
    lastKind,             \* history: what the latest sensor message produced
    sendFailed,           \* the gather the last step returned from, if any
    skipped,              \* history: per client, buffered sample ids a flush skipped
    retried,              \* history: (client, id) sent after being skipped
    ziOf                  \* history: the coefficients each delay line was written under

vars == <<filter_settings, coefs, zi, has_mpu_data, pitch_angle, roll_angle,
          emg_data_buffer, iter, connected_clients, last_web_send_time,
          webPc, espPc, flushPc, pending, now, nMsgs, lastKind, nSamples, nWeb, webLast,
          bcast, lastPassed, passedOnce, passedTwice, sendTimes, sinceClear,
          flushPassed, flushRemoved, atCancel, finalFlushes, espLast,
          sendFailed, skipped, retried, ziOf>>

filterVars == <<filter_settings, coefs, zi, ziOf>>
mpuVars    == <<has_mpu_data, pitch_angle, roll_angle>>
cancelHist == <<atCancel, finalFlushes>>
webVars    == <<connected_clients, webPc, nWeb>>

DefaultSettings ==
    [notch_enabled |-> TRUE, low_pass_cutoff |-> 330, high_pass_cutoff |-> 20]

\* no observer message was handled by the last step
NoWeb ==
    [client |-> 0, outcome |-> "none",
     msg |-> [shape |-> "none", has |-> {}, type |-> "", notch_enabled |-> FALSE,
              low_pass_cutoff |-> 0, high_pass_cutoff |-> 0]]

NoIter == [active |-> FALSE, shared |-> TRUE, list |-> <<>>, idx |-> 0]

\* no sensor message was handled by the last step
NoEsp == [msg |-> [stats |-> FALSE, parts |-> <<>>], kind |-> "none", after |-> "none"]

\* the last step did not return from an asyncio.gather
NoGather == [task |-> "none", failed |-> {}, delivered |-> {}, raised |-> FALSE]

\* the module globals after main() has called initialize_filters()
Init ==
    /\ filter_settings = DefaultSettings
    /\ coefs = [notch |-> DesignedCoefs(DefaultSettings).notch,
                lp |-> DesignedCoefs(DefaultSettings).lp,
                hp |-> DesignedCoefs(DefaultSettings).hp]
    /\ zi = SteadyState(DesignedCoefs(DefaultSettings))
    /\ has_mpu_data = FALSE
    /\ pitch_angle = 0
    /\ roll_angle = 0
    /\ emg_data_buffer = <<>>
    /\ iter = NoIter
    /\ connected_clients = {}
    /\ last_web_send_time = [c \in Clients |-> NoEntry]
    /\ webPc = [c \in Clients |-> "new"]
    /\ espPc = "none"
    /\ flushPc = "none"
    /\ pending = [esp |-> {}, flush |-> {}]
    /\ now = 0
    /\ nMsgs = 0
    /\ nSamples = 0
    /\ nWeb = 0
    /\ webLast = NoWeb
    /\ bcast = <<>>
    /\ lastPassed = 0
    /\ passedOnce = {}
    /\ passedTwice = {}
    /\ sendTimes = [c \in Clients |-> <<>>]
    /\ sinceClear = <<>>
    /\ flushPassed = {}
    /\ flushRemoved = {}
    /\ atCancel = [at |-> "none", ids |-> {}]
    /\ finalFlushes = 0
    /\ espLast = NoEsp
    /\ lastKind = "none"
    /\ sendFailed = NoGather
    /\ skipped = [c \in Clients |-> {}]
    /\ retried = {}
    /\ ziOf = [l \in Lines |-> DesignedCoefs(DefaultSettings)[StageOf(l)]]

\* --------------------------------------------------------------- broadcast
\* send_to_web_clients, lines 176-180: the client is skipped
Throttled(lst, c, t) == lst[c] # NoEntry /\ t - lst[c] < THROTTLE_INTERVAL_MS

\* send_to_web_clients(data) at time t: the clients a send is scheduled for
\* and the throttle entries afterwards
send_to_web_clients_stamp(cc, lst, t) ==
    LET to == {c \in cc : ~Throttled(lst, c, t)}
    IN  [to |-> to, lst |-> [c \in Clients |-> IF c \in cc THEN t ELSE lst[c]]]

send_to_web_clients(cc, lst, t) ==
    LET to == {c \in cc : ~Throttled(lst, c, t)}
    IN  [to |-> to, lst |-> [c \in Clients |-> IF c \in to THEN t ELSE lst[c]]]

\* asyncio.gather(*sending_tasks, return_exceptions=True), line 190: it
\* returns when every send has finished; the exceptions of the sends in
\* failed are returned in the result list, which the caller discards
gather_propagate(to, failed) ==
    [delivered |-> to \ failed, raised |-> failed # {}]

gather(to, failed) ==
    [delivered |-> to \ failed, raised |-> FALSE]

Event(type, id, status) == [type |-> type, id |-> id, status |-> status]

Entry(ev, cc, t, to) ==
    [type |-> ev.type, id |-> ev.id, status |-> ev.status,
     at |-> t, reg |-> cc, to |-> to]

\* the sample ids of the emg_data events in a sequence of calls
EmgIds(log) ==
    LET e == SelectSeq(log, LAMBDA x : x.type = "emg_data")
    IN  [i \in 1..Len(e) |-> e[i].id]

SeqRange(s) == {s[i] : i \in 1..Len(s)}

\* history bookkeeping of a step whose calls of send_to_web_clients are log
Broadcasts(log) ==
    /\ bcast' = log
    /\ lastPassed' = IF EmgIds(bcast) = <<>> THEN lastPassed
                     ELSE EmgIds(bcast)[Len(EmgIds(bcast))]
    /\ passedOnce' = passedOnce \cup SeqRange(EmgIds(log))
    /\ passedTwice' = passedTwice \cup
          {id \in SeqRange(EmgIds(log)) :
              \/ id \in passedOnce
              \/ Cardinality({i \in 1..Len(EmgIds(log)) : EmgIds(log)[i] = id}) > 1}
    /\ sendTimes' = [c \in Clients |->
          sendTimes[c] \o
          [i \in 1..Len(SelectSeq(log, LAMBDA x : c \in x.to)) |->
              SelectSeq(log, LAMBDA x : c \in x.to)[i].at]]

\* the samples the calls in log skipped for client c
SkippedIn(log, c) ==
    {log[k].id : k \in {j \in 1..Len(log) :
                           /\ log[j].type = "emg_data"
                           /\ c \in log[j].reg \ log[j].to}}

\* the (client, sample) pairs the calls in log sent after an earlier skip
RetriedIn(log) ==
    {x \in {<<c, log[j].id>> : c \in Clients, j \in 1..Len(log)} :
        /\ x[2] \in skipped[x[1]]
        /\ \E j \in 1..Len(log) :
              /\ log[j].type = "emg_data" /\ log[j].id = x[2]
              /\ x[1] \in log[j].to}

\* flushPassed and flushRemoved describe the flush in progress or the one
\* the last step finished; any other step forgets them
FlushHistIdle ==
    /\ flushRemoved' = {}
    /\ flushPassed' = IF iter.active THEN flushPassed ELSE {}

\* a step of a handler that calls send_to_web_clients once, for event ev
EspBroadcast(ev, to) ==
    /\ Broadcasts(<<Entry(ev, connected_clients, now, to)>>)
    /\ FlushHistIdle
    /\ webLast' = NoWeb
    /\ espLast' = NoEsp
    /\ sendFailed' = NoGather
    /\ UNCHANGED <<skipped, retried>>

NoBroadcast ==
    /\ Broadcasts(<<>>)
    /\ FlushHistIdle
    /\ webLast' = NoWeb
    /\ espLast' = NoEsp
    /\ sendFailed' = NoGather
    /\ UNCHANGED <<skipped, retried>>

\* ------------------------------------------------------------------ buffer
LastN(s, n) == IF Len(s) <= n THEN s ELSE SubSeq(s, Len(s) - n + 1, Len(s))

FirstN(s, n) == IF Len(s) <= n THEN s ELSE SubSeq(s, 1, n)

Ids(s) == {s[i].id : i \in 1..Len(s)}

\* lines 304-309 and 329-333: append, then keep the most recent
\* MAX_BUFFER_SIZE in a new list
Trim_oldest(buf) == FirstN(buf, MAX_BUFFER_SIZE)

Trim(buf) == LastN(buf, MAX_BUFFER_SIZE)

\* the iterator after the append: an append mutates the list object the
\* iterator walks; the slice binds the global name to a new list and leaves
\* the iterator on the old one
IterAfterAppend(it, buf, sample) ==
    IF it.active /\ it.shared /\ Len(buf) + 1 > MAX_BUFFER_SIZE
    THEN [it EXCEPT !.shared = FALSE, !.list = Append(buf, sample)]
    ELSE it

IterList(it, buf) == IF it.shared THEN buf ELSE it.list

\* process_data_buffer, lines 201-205, from the iterator position idx up to
\* the next suspension in asyncio.gather or to the clear()
RECURSIVE FlushRun(_, _, _, _, _, _, _)
FlushRun(list, idx, cc, lst, t, log, passed) ==
    IF idx >= Len(list)
    THEN [suspended |-> FALSE, idx |-> idx, lst |-> lst, log |-> log,
          passed |-> passed, to |-> {}]
    ELSE LET data == list[idx + 1]
             r    == send_to_web_clients(cc, lst, t)
             log2 == Append(log, Entry(Event("emg_data", data.id, ""), cc, t, r.to))
             p2   == passed \cup {data.id}
         IN  IF r.to # {}
             THEN [suspended |-> TRUE, idx |-> idx + 1, lst |-> r.lst,
                   log |-> log2, passed |-> p2, to |-> r.to]
             ELSE FlushRun(list, idx + 1, cc, r.lst, t, log2, p2)

\* --------------------------------------------------------- sensor records
\* one comma-separated field: float() succeeds on it or raises ValueError
Num(v) == [num |-> TRUE, val |-> v]
Bad    == [num |-> FALSE, val |-> 0]

\* a sensor message after split(","); stats is message.startswith("STATS")
RawMsg(parts)   == [stats |-> FALSE, parts |-> parts]
StatsMsg(parts) == [stats |-> TRUE, parts |-> <<Bad>> \o parts]

NoSample ==
    [id |-> 0, raw1 |-> 0, filtered1 |-> 0, raw2 |-> 0, filtered2 |-> 0,
     has_angles |-> FALSE, pitch |-> 0, roll |-> 0]

AllNum_lenient(parts, from, to) == TRUE

AllNum(parts, from, to) == \A i \in from..to : parts[i].num

\* lines 243-246, 265, 281-282 and 311: the STATS prefix and the number of
\* fields select the branch; no branch is taken for any other count
RecordShape_atleast(m) ==
    IF m.stats
    THEN IF Len(m.parts) >= 8 THEN "stats8"
         ELSE IF Len(m.parts) >= 6 THEN "stats6" ELSE "other"
    ELSE IF Len(m.parts) >= 4 THEN "raw4"
         ELSE IF Len(m.parts) >= 2 THEN "raw2" ELSE "other"

RecordShape(m) ==
    IF m.stats
    THEN IF Len(m.parts) = 8 THEN "stats8"
         ELSE IF Len(m.parts) = 6 THEN "stats6" ELSE "other"
    ELSE IF Len(m.parts) = 4 THEN "raw4"
         ELSE IF Len(m.parts) = 2 THEN "raw2" ELSE "other"

\* the body of the receive loop, lines 242-337, up to the append or the
\* broadcast: the globals it leaves and what the message produced
HandleRecord(m, mpu, pitch, roll, fs, cf, z) ==
    LET p    == m.parts
        keep == [kind |-> "ignored", has_mpu_data |-> mpu, pitch_angle |-> pitch,
                 roll_angle |-> roll, zi |-> z, sample |-> NoSample]
    IN
    IF m.stats
    THEN IF RecordShape(m) = "stats8"
         THEN IF ~p[7].num
              THEN [keep EXCEPT !.kind = "error", !.has_mpu_data = TRUE]
              ELSE IF ~p[8].num
              THEN [keep EXCEPT !.kind = "error", !.has_mpu_data = TRUE,
                                !.pitch_angle = p[7].val]
              ELSE [keep EXCEPT !.kind = IF AllNum(p, 2, 6) THEN "stats" ELSE "error",
                                !.has_mpu_data = TRUE,
                                !.pitch_angle = p[7].val, !.roll_angle = p[8].val]
         ELSE IF RecordShape(m) = "stats6"
         THEN [keep EXCEPT !.kind = IF AllNum(p, 2, 6) THEN "stats" ELSE "error",
                           !.has_mpu_data = FALSE]
         ELSE keep
    ELSE IF RecordShape(m) = "raw4"
         THEN IF ~AllNum(p, 1, 3)
              THEN [keep EXCEPT !.kind = "error"]
              ELSE IF ~p[4].num
              THEN [keep EXCEPT !.kind = "error", !.pitch_angle = p[3].val]
              ELSE LET r == process_emg_data(fs, cf, z, p[1].val, p[2].val)
                   IN  [kind |-> "emg", has_mpu_data |-> TRUE,
                        pitch_angle |-> p[3].val, roll_angle |-> p[4].val,
                        zi |-> r.zi,
                        sample |-> [id |-> 0, raw1 |-> p[1].val,
                                    filtered1 |-> r.filtered_ch1,
                                    raw2 |-> p[2].val,
                                    filtered2 |-> r.filtered_ch2,
                                    has_angles |-> TRUE,
                                    pitch |-> p[3].val, roll |-> p[4].val]]
         ELSE IF RecordShape(m) = "raw2"
         THEN IF ~AllNum(p, 1, 2)
              THEN [keep EXCEPT !.kind = "error"]
              ELSE LET r == process_emg_data(fs, cf, z, p[1].val, p[2].val)
                   IN  [kind |-> "emg", has_mpu_data |-> FALSE,
                        pitch_angle |-> pitch, roll_angle |-> roll,
                        zi |-> r.zi,
                        sample |-> [id |-> 0, raw1 |-> p[1].val,
                                    filtered1 |-> r.filtered_ch1,
                                    raw2 |-> p[2].val,
                                    filtered2 |-> r.filtered_ch2,
                                    has_angles |-> FALSE,
                                    pitch |-> 0, roll |-> 0]]
         ELSE keep

\* ------------------------------------------------------- observer messages
SettingKeys == {"notch_enabled", "low_pass_cutoff", "high_pass_cutoff"}

\* a JSON text: not JSON at all, a JSON value that is not an object, or an
\* object with the keys in has (the fields of absent keys are not read)
WebMsg(shape, has, type, ne, lp, hp) ==
    [shape |-> shape, has |-> has, type |-> type, notch_enabled |-> ne,
     low_pass_cutoff |-> lp, high_pass_cutoff |-> hp]

\* lines 390-395: the dict passed to update_filter_settings; a missing key
\* raises KeyError before the call
SettingsFromMessage_partial(m) ==
    [ok |-> TRUE, has |-> m.has \cap SettingKeys,
     notch_enabled |-> m.notch_enabled,
     low_pass_cutoff |-> m.low_pass_cutoff,
     high_pass_cutoff |-> m.high_pass_cutoff]

SettingsFromMessage(m) ==
    [ok |-> SettingKeys \subseteq m.has, has |-> SettingKeys,
     notch_enabled |-> m.notch_enabled,
     low_pass_cutoff |-> m.low_pass_cutoff,
     high_pass_cutoff |-> m.high_pass_cutoff]

\* filter_settings.update(settings), line 154
MergeSettings(fs, st) ==
    [notch_enabled    |-> IF "notch_enabled" \in st.has
                          THEN st.notch_enabled ELSE fs.notch_enabled,
     low_pass_cutoff  |-> IF "low_pass_cutoff" \in st.has
                          THEN st.low_pass_cutoff ELSE fs.low_pass_cutoff,
     high_pass_cutoff |-> IF "high_pass_cutoff" \in st.has
                          THEN st.high_pass_cutoff ELSE fs.high_pass_cutoff]

\* update_filter_settings(settings): merge, then initialize_filters()
update_filter_settings(fs, cf, z, st) ==
    LET merged == MergeSettings(fs, st)
        r      == initialize_filters(merged, cf, z)
    IN  [ok |-> r.ok, filter_settings |-> merged, coefs |-> r.coefs, zi |-> r.zi,
         assigned |-> r.assigned]

\* what the try block of handle_web_client does with one message:
\*   "applied"  update_filter_settings returned
\*   "none"     a message of another type
\*   "caught"   JSONDecodeError or KeyError, logged
\*   "raised"   an exception the handler does not catch
HandleWebMessage(m, fs, cf, z) ==
    LET same == [outcome |-> "none", filter_settings |-> fs, coefs |-> cf, zi |-> z,
                 assigned |-> {}]
    IN  IF m.shape = "invalid" THEN [same EXCEPT !.outcome = "caught"]
        ELSE IF m.shape = "nonobject" THEN [same EXCEPT !.outcome = "raised"]
        ELSE IF "type" \notin m.has THEN [same EXCEPT !.outcome = "caught"]
        ELSE IF m.type # "filter_settings" THEN same
        ELSE LET st == SettingsFromMessage(m)
                 u  == update_filter_settings(fs, cf, z, st)
             IN  IF ~st.ok THEN [same EXCEPT !.outcome = "caught"]
                 ELSE [outcome |-> IF u.ok THEN "applied" ELSE "raised",
                       filter_settings |-> u.filter_settings,
                       coefs |-> u.coefs, zi |-> u.zi, assigned |-> u.assigned]

\* ----------------------------------------------------------- sensor handler
\* line 231: asyncio.create_task(buffer_processor(100)); the task runs its
\* first process_data_buffer as soon as the handler suspends in the receive
StartFlushTask ==
    /\ espPc' = "recv"
    /\ flushPc' = "sleep"

\* lines 353-359: buffer_task.cancel(), then await buffer_task; the sends a
\* suspended flush was awaiting are cancelled with it
CancelFlushTask ==
    /\ espPc' = "join"
    /\ flushPc' = "cancelled"
    /\ atCancel' = [at |-> flushPc, ids |-> Ids(emg_data_buffer)]
    /\ finalFlushes' = finalFlushes
    /\ pending' = [esp |-> {}, flush |-> {}]

\* lines 220-231: the device-online notification, then the flush task
EspConnect ==
    /\ espPc = "none"
    /\ LET r == send_to_web_clients(connected_clients, last_web_send_time, now)
       IN  IF connected_clients # {}
           THEN /\ EspBroadcast(Event("esp32_status", 0, "connected"), r.to)
                /\ last_web_send_time' = r.lst
                /\ IF r.to # {}
                   THEN /\ espPc' = "conn_send"
                        /\ pending' = [pending EXCEPT !.esp = r.to]
                        /\ UNCHANGED flushPc
                   ELSE /\ StartFlushTask
                        /\ UNCHANGED pending
           ELSE /\ StartFlushTask
                /\ NoBroadcast
                /\ UNCHANGED <<last_web_send_time, pending>>
    /\ UNCHANGED <<filterVars, mpuVars, emg_data_buffer, iter, webVars, now,
                   nMsgs, lastKind, nSamples, sinceClear, cancelHist>>

\* asyncio.gather of the sensor handler's broadcast returns
EspSendDone ==
    /\ espPc \in {"conn_send", "stats_send", "disc_send"}
    /\ \E failed \in SUBSET pending.esp :
          LET g == gather(pending.esp, failed)
          IN  /\ sendFailed' = [task |-> "esp", failed |-> failed,
                                 delivered |-> g.delivered, raised |-> g.raised]
              /\ IF g.raised
                 THEN /\ espPc' = "raised"
                      /\ pending' = [pending EXCEPT !.esp = {}]
                      /\ UNCHANGED <<flushPc, cancelHist>>
                 ELSE IF espPc = "conn_send"
                 THEN /\ StartFlushTask
                      /\ pending' = [pending EXCEPT !.esp = {}]
                      /\ UNCHANGED cancelHist
                 ELSE IF espPc = "stats_send"
                 THEN /\ espPc' = "recv"
                      /\ pending' = [pending EXCEPT !.esp = {}]
                      /\ UNCHANGED <<flushPc, cancelHist>>
                 ELSE CancelFlushTask
    /\ Broadcasts(<<>>)
    /\ FlushHistIdle
    /\ webLast' = NoWeb
    /\ espLast' = NoEsp
    /\ UNCHANGED <<filterVars, mpuVars, emg_data_buffer, iter, webVars,
                   last_web_send_time, now, nMsgs, lastKind, nSamples, sinceClear,
                   skipped, retried>>

\* where the receive loop sends what a record produced: an EMG sample to the
\* buffer (lines 304, 329), a stats record straight to send_to_web_clients
\* (lines 263, 277), anything else nowhere
Route_buffered(kind) ==
    IF kind \in {"emg", "stats"} THEN "buffer" ELSE "drop"

Route(kind) ==
    IF kind = "emg" THEN "buffer"
    ELSE IF kind = "stats" THEN "broadcast" ELSE "drop"

\* one iteration of the receive loop, lines 234-337
EspMessage(m, cap) ==
    /\ espPc = "recv"
    /\ nMsgs < cap
    /\ nMsgs' = nMsgs + 1
    /\ LET h == HandleRecord(m, has_mpu_data, pitch_angle, roll_angle,
                             filter_settings, coefs, zi)
           sample == [h.sample EXCEPT !.id = nSamples + 1]
           r == send_to_web_clients(connected_clients, last_web_send_time, now)
       IN  /\ has_mpu_data' = h.has_mpu_data
           /\ pitch_angle' = h.pitch_angle
           /\ roll_angle' = h.roll_angle
           /\ zi' = h.zi
           /\ ziOf' = IF h.kind = "emg"
                      THEN [l \in Lines |->
                              IF l \in LinesWritten(filter_settings)
                              THEN coefs[StageOf(l)] ELSE ziOf[l]]
                      ELSE ziOf
           /\ espLast' = [msg |-> m, kind |-> h.kind, after |-> lastKind]
           /\ lastKind' = h.kind
           /\ IF Route(h.kind) = "buffer"
              THEN /\ emg_data_buffer' = Trim(Append(emg_data_buffer, sample))
                   /\ iter' = IterAfterAppend(iter, emg_data_buffer, sample)
                   /\ nSamples' = nSamples + 1
                   /\ sinceClear' = Append(sinceClear, sample.id)
                   /\ Broadcasts(<<>>)
                   /\ UNCHANGED <<espPc, last_web_send_time, pending>>
              ELSE IF Route(h.kind) = "broadcast"
              THEN /\ Broadcasts(<<Entry(Event("emg_stats", 0, ""),
                                         connected_clients, now, r.to)>>)
                   /\ last_web_send_time' = r.lst
                   /\ IF r.to # {}
                      THEN /\ espPc' = "stats_send"
                           /\ pending' = [pending EXCEPT !.esp = r.to]
                      ELSE UNCHANGED <<espPc, pending>>
                   /\ UNCHANGED <<emg_data_buffer, iter, nSamples, sinceClear>>
              ELSE /\ Broadcasts(<<>>)
                   /\ UNCHANGED <<emg_data_buffer, iter, nSamples, sinceClear,
                                  espPc, last_web_send_time, pending>>
    /\ FlushHistIdle
    /\ webLast' = NoWeb
    /\ sendFailed' = NoGather
    /\ UNCHANGED <<filter_settings, coefs, webVars, flushPc, now, cancelHist,
                   skipped, retried>>

\* the receive loop ends: "error" is ConnectionClosed raised into the
\* handler (lines 338-352), "ok" is the iterator finishing on a clean close
EspClose(how) ==
    /\ espPc = "recv"
    /\ LET r == send_to_web_clients(connected_clients, last_web_send_time, now)
       IN  IF how = "error" /\ connected_clients # {}
           THEN /\ EspBroadcast(Event("esp32_status", 0, "disconnected"), r.to)
                /\ last_web_send_time' = r.lst
                /\ IF r.to # {}
                   THEN /\ espPc' = "disc_send"
                        /\ pending' = [pending EXCEPT !.esp = r.to]
                        /\ UNCHANGED <<flushPc, cancelHist>>
                   ELSE CancelFlushTask
           ELSE /\ CancelFlushTask
                /\ NoBroadcast
                /\ UNCHANGED last_web_send_time
    /\ UNCHANGED <<filterVars, mpuVars, emg_data_buffer, iter, webVars, now,
                   nMsgs, lastKind, nSamples, sinceClear>>

\* await buffer_task returns with CancelledError, lines 356-359
EspJoin ==
    /\ espPc = "join"
    /\ flushPc = "done"
    /\ espPc' = "closed"
    /\ NoBroadcast
    /\ UNCHANGED <<filterVars, mpuVars, emg_data_buffer, iter, webVars,
                   last_web_send_time, flushPc, pending, now, nMsgs, lastKind, nSamples,
                   sinceClear, cancelHist>>

\* --------------------------------------------------------------- flush task
\* process_data_buffer from position it.idx of the list the iterator walks:
\* it suspends in a send, or reaches the end and clears the list the global
\* name is bound to at that moment
FlushStep(it, passed0, pcSuspended, pcFinished) ==
    LET r == FlushRun(IterList(it, emg_data_buffer), it.idx, connected_clients,
                      last_web_send_time, now, <<>>, passed0)
    IN  /\ last_web_send_time' = r.lst
        /\ Broadcasts(r.log)
        /\ webLast' = NoWeb
        /\ espLast' = NoEsp
        /\ flushPassed' = r.passed
        /\ retried' = retried \cup RetriedIn(r.log)
        /\ skipped' = IF r.suspended
                       THEN [c \in Clients |-> skipped[c] \cup SkippedIn(r.log, c)]
                       ELSE [c \in Clients |-> {}]
        /\ IF r.suspended
           THEN /\ flushPc' = pcSuspended
                /\ iter' = [it EXCEPT !.active = TRUE, !.idx = r.idx]
                /\ pending' = [pending EXCEPT !.flush = r.to]
                /\ flushRemoved' = {}
                /\ UNCHANGED <<emg_data_buffer, sinceClear>>
           ELSE /\ flushPc' = pcFinished
                /\ iter' = NoIter
                /\ pending' = [pending EXCEPT !.flush = {}]
                /\ flushRemoved' = Ids(emg_data_buffer)
                /\ emg_data_buffer' = <<>>
                /\ sinceClear' = <<>>

\* the sleep ends (or the task starts) and process_data_buffer finds samples
FlushWake ==
    /\ flushPc = "sleep"
    /\ emg_data_buffer # <<>>
    /\ FlushStep(NoIter, {}, "send", "sleep")
    /\ sendFailed' = NoGather
    /\ UNCHANGED <<filterVars, mpuVars, webVars, espPc, now, nMsgs, lastKind, nSamples, cancelHist>>

\* asyncio.gather of a flush's broadcast returns and the loop goes on
FlushResume ==
    /\ flushPc \in {"send", "final_send"}
    /\ \E failed \in SUBSET pending.flush :
          LET g == gather(pending.flush, failed)
          IN  /\ sendFailed' = [task |-> "flush", failed |-> failed,
                                 delivered |-> g.delivered, raised |-> g.raised]
              /\ IF g.raised
                 THEN /\ flushPc' = "raised"
                      /\ pending' = [pending EXCEPT !.flush = {}]
                      /\ Broadcasts(<<>>)
                      /\ webLast' = NoWeb
                      /\ espLast' = NoEsp
                      /\ UNCHANGED <<last_web_send_time, iter, emg_data_buffer,
                                     sinceClear, flushPassed, flushRemoved,
                                     skipped, retried>>
                 ELSE FlushStep(iter, flushPassed, flushPc,
                                IF flushPc = "send" THEN "sleep" ELSE "done")
    /\ UNCHANGED <<filterVars, mpuVars, webVars, espPc, now, nMsgs, lastKind, nSamples, cancelHist>>

\* CancelledError reaches buffer_processor, lines 367-370: one more
\* process_data_buffer from the start of the buffer, then the task ends
FlushCancelled ==
    /\ flushPc = "cancelled"
    /\ finalFlushes' = finalFlushes + 1
    /\ IF emg_data_buffer = <<>>
       THEN /\ flushPc' = "done"
            /\ iter' = NoIter
            /\ NoBroadcast
            /\ UNCHANGED <<emg_data_buffer, sinceClear, last_web_send_time,
                           pending>>
       ELSE /\ FlushStep(NoIter, {}, "final_send", "done")
            /\ sendFailed' = NoGather
    /\ UNCHANGED <<filterVars, mpuVars, webVars, espPc, now, nMsgs, lastKind, nSamples,
                   atCancel>>

\* -------------------------------------------------------- observer handlers
\* the finally block, lines 401-409
Unregister(c) ==
    /\ connected_clients' = connected_clients \ {c}
    /\ last_web_send_time' =
          IF c \in connected_clients
          THEN [last_web_send_time EXCEPT ![c] = NoEntry]
          ELSE last_web_send_time

\* line 375, then the handler suspends in the send of mpu_status
WebConnect(c) ==
    /\ webPc[c] = "new"
    /\ connected_clients' = connected_clients \cup {c}
    /\ webPc' = [webPc EXCEPT ![c] = "mpu_send"]
    /\ NoBroadcast
    /\ UNCHANGED <<filterVars, mpuVars, emg_data_buffer, iter,
                   last_web_send_time, espPc, flushPc, pending, now, nMsgs, lastKind,
                   nSamples, nWeb, sinceClear, cancelHist>>

\* the send of line 379 returns and the handler enters its receive loop
WebMpuSent(c) ==
    /\ webPc[c] = "mpu_send"
    /\ webPc' = [webPc EXCEPT ![c] = "recv"]
    /\ NoBroadcast
    /\ UNCHANGED <<filterVars, mpuVars, emg_data_buffer, iter,
                   connected_clients, last_web_send_time, espPc, flushPc,
                   pending, now, nMsgs, lastKind, nSamples, nWeb, sinceClear, cancelHist>>

\* the send of line 379 raises: it is outside the try statement, so the
\* handler ends without running the finally block
WebMpuFail(c) ==
    /\ webPc[c] = "mpu_send"
    /\ webPc' = [webPc EXCEPT ![c] = "failed"]
    /\ NoBroadcast
    /\ UNCHANGED <<filterVars, mpuVars, emg_data_buffer, iter,
                   connected_clients, last_web_send_time, espPc, flushPc,
                   pending, now, nMsgs, lastKind, nSamples, nWeb, sinceClear, cancelHist>>

\* one iteration of the observer receive loop, lines 385-398; an exception
\* the except clause does not name leaves through the finally block
WebMessage(c, m) ==
    /\ webPc[c] = "recv"
    /\ nWeb < MaxWebMsgs
    /\ nWeb' = nWeb + 1
    /\ LET h == HandleWebMessage(m, filter_settings, coefs, zi)
       IN  /\ webLast' = [client |-> c, outcome |-> h.outcome, msg |-> m]
           /\ filter_settings' = h.filter_settings
           /\ coefs' = h.coefs
           /\ zi' = h.zi
           /\ ziOf' = [l \in Lines |->
                         IF l \in h.assigned THEN h.coefs[StageOf(l)] ELSE ziOf[l]]
           /\ IF h.outcome = "raised"
              THEN /\ webPc' = [webPc EXCEPT ![c] = "crashed"]
                   /\ Unregister(c)
              ELSE UNCHANGED <<webPc, connected_clients, last_web_send_time>>
    /\ Broadcasts(<<>>)
    /\ FlushHistIdle
    /\ espLast' = NoEsp
    /\ sendFailed' = NoGather
    /\ UNCHANGED <<skipped, retried>>
    /\ UNCHANGED <<mpuVars, emg_data_buffer, iter, espPc, flushPc, pending, now,
                   nMsgs, lastKind, nSamples, sinceClear, cancelHist>>

\* the observer's connection closes while its handler waits for a message
WebClose(c) ==
    /\ webPc[c] = "recv"
    /\ webPc' = [webPc EXCEPT ![c] = "closed"]
    /\ Unregister(c)
    /\ NoBroadcast
    /\ UNCHANGED <<filterVars, mpuVars, emg_data_buffer, iter, espPc, flushPc,
                   pending, now, nMsgs, lastKind, nSamples, nWeb, sinceClear, cancelHist>>

\* -------------------------------------------------------------------- clock
Tick(d) ==
    /\ now + d <= MaxTime
    /\ now' = now + d
    /\ NoBroadcast
    /\ UNCHANGED <<filterVars, mpuVars, emg_data_buffer, iter, webVars,
                   last_web_send_time, espPc, flushPc, pending, nMsgs, lastKind, nSamples,
                   sinceClear, cancelHist>>

\* ------------------------------------------------------------------ inputs
EspMsgs ==
    { RawMsg(<<Num(1), Num(2)>>),
      StatsMsg(<<Num(1), Num(1), Num(1), Num(1), Num(1)>>) }

FilterMsgs ==
    { RawMsg(<<Num(1), Num(2)>>),
      RawMsg(<<Num(2), Num(0), Num(3), Num(4)>>) }

BufMsgs == { RawMsg(<<Num(1), Num(2)>>) }

LowPassInputs  == {330, 825}
HighPassInputs == {20, 825}

FullSettingsMsgs ==
    { WebMsg("object", SettingKeys \cup {"type"}, "filter_settings", ne, lp, hp) :
        ne \in BOOLEAN, lp \in LowPassInputs, hp \in HighPassInputs }

WebMsgs ==
    FullSettingsMsgs \cup
    { WebMsg("invalid", {}, "", FALSE, 0, 0),
      WebMsg("nonobject", {}, "", FALSE, 0, 0),
      WebMsg("object", {}, "", FALSE, 0, 0),
      WebMsg("object", {"type"}, "ping", FALSE, 0, 0),
      WebMsg("object", {"type", "low_pass_cutoff"}, "filter_settings", FALSE, 825, 0),
      WebMsg("object", {"type", "notch_enabled", "high_pass_cutoff"},
             "filter_settings", FALSE, 0, 825) }

TickSteps == {5, 20}

\* n numeric fields, the i-th with value i
Fields(n) == [i \in 1..n |-> Num(i)]

\* the same fields with a non-numeric text in position k
BadAt(parts, k) == [parts EXCEPT ![k] = Bad]

\* sensor records of every field count from one below the smallest known
\* shape to one above the largest, all numeric or with one non-numeric field
RecMsgs ==
    {RawMsg(Fields(n)) : n \in 1..5} \cup
    {StatsMsg(Fields(n)) : n \in 4..8} \cup
    UNION {{RawMsg(BadAt(Fields(n), k)) : k \in 1..n} : n \in 2..4} \cup
    UNION {{StatsMsg(BadAt(Fields(n), k)) : k \in 1..n} : n \in 5..7}

\* ----------------------------------------------------------- specifications
Next ==
    \/ EspConnect
    \/ EspSendDone
    \/ \E m \in EspMsgs : EspMessage(m, MaxMsgs)
    \/ \E how \in {"ok", "error"} : EspClose(how)
    \/ EspJoin
    \/ FlushWake
    \/ FlushResume
    \/ FlushCancelled
    \/ \E c \in Clients : WebConnect(c)
    \/ \E c \in Clients : WebMpuSent(c)
    \/ \E c \in Clients : WebMpuFail(c)
    \/ \E c \in Clients : WebClose(c)
    \/ \E d \in TickSteps : Tick(d)

Spec == Init /\ [][Next]_vars

\* the observers' settings messages against the sensor's raw records
FilterClients == {1}

NextFilter ==
    \/ EspConnect
    \/ \E m \in FilterMsgs : EspMessage(m, MaxMsgs)
    \/ \E c \in FilterClients : WebConnect(c)
    \/ \E c \in FilterClients : WebMpuSent(c)
    \/ \E c \in FilterClients, m \in WebMsgs : WebMessage(c, m)
    \/ \E c \in FilterClients : WebClose(c)

SpecFilter == Init /\ [][NextFilter]_vars

\* the buffer and its flush task over one sensor connection, one observer
BufClients == {1}

NextBuf ==
    \/ EspConnect
    \/ EspSendDone
    \/ \E m \in BufMsgs : EspMessage(m, MaxBufMsgs)
    \/ \E how \in {"ok", "error"} : EspClose(how)
    \/ EspJoin
    \/ FlushWake
    \/ FlushResume
    \/ FlushCancelled
    \/ \E c \in BufClients : WebConnect(c)

SpecBuf == Init /\ [][NextBuf]_vars

\* every shape of sensor record, one observer, the flush task running
RecClients == {1}

NextRec ==
    \/ EspConnect
    \/ EspSendDone
    \/ \E m \in RecMsgs : EspMessage(m, MaxRecMsgs)
    \/ FlushWake
    \/ FlushResume
    \/ \E c \in RecClients : WebConnect(c)

SpecRec == Init /\ [][NextRec]_vars

\* ------------------------------------------------------------------ claims
IdSeq(buf) == [i \in 1..Len(buf) |-> buf[i].id]

Increasing(q) == \A i \in 1..(Len(q) - 1) : q[i] < q[i + 1]

\* C1: every sample a flush removes from the buffer with clear() has been
\* passed to send_to_web_clients by that flush, also when sensor records
\* were appended while the flush was suspended in a send.
C1_RemovedWereBroadcast == flushRemoved \subseteq flushPassed

\* C2: the buffer never holds more than MAX_BUFFER_SIZE samples, and they are
\* the most recent samples appended since the last clear(), in arrival order.
C2_BufferHoldsMostRecent ==
    /\ Len(emg_data_buffer) <= MAX_BUFFER_SIZE
    /\ IdSeq(emg_data_buffer) = LastN(sinceClear, MAX_BUFFER_SIZE)

\* 60 samples appended with no flush in between: samples 11 to 60 remain
C2_Witness ==
    /\ Len(sinceClear) = 60
    /\ IdSeq(emg_data_buffer) = [i \in 1..50 |-> i + 10]

\* C3: over the sensor connection's lifetime the emg_data samples passed to
\* send_to_web_clients are in strictly increasing arrival order, none twice.
C3_BroadcastInArrivalOrder ==
    /\ passedTwice = {}
    /\ Increasing(<<lastPassed>> \o EmgIds(bcast))

\* C4: once the sensor handler has ended, the flush task has terminated after
\* exactly one final flush, the buffer is empty, and every sample that was
\* buffered when the task was cancelled has been broadcast exactly once.
C4_FinalFlush ==
    espPc = "closed" =>
        /\ flushPc = "done"
        /\ finalFlushes = 1
        /\ emg_data_buffer = <<>>
        /\ \A id \in atCancel.ids : id \in passedOnce /\ id \notin passedTwice

\* the sends to client c issued before call k of the last step
PriorSends(c, k) ==
    LET later == Cardinality({j \in k..Len(bcast) : c \in bcast[j].to})
    IN  SubSeq(sendTimes[c], 1, Len(sendTimes[c]) - later)

\* C5: in every broadcast, of any event kind, a registered client is sent the
\* event exactly when nothing was sent to it before or at least
\* THROTTLE_INTERVAL_MS have passed since the last event sent to it; a skipped
\* broadcast leaves the client's timestamp alone, so the timestamp is the time
\* of the last send and two sends to one client are at least the interval apart.
C5_ThrottleRule ==
    /\ \A k \in 1..Len(bcast) : \A c \in bcast[k].reg :
          c \in bcast[k].to <=>
             \/ PriorSends(c, k) = <<>>
             \/ bcast[k].at - PriorSends(c, k)[Len(PriorSends(c, k))]
                   >= THROTTLE_INTERVAL_MS
    /\ \A c \in connected_clients :
          last_web_send_time[c] =
             IF sendTimes[c] = <<>> THEN NoEntry
             ELSE sendTimes[c][Len(sendTimes[c])]
    /\ \A c \in Clients : \A i \in 1..(Len(sendTimes[c]) - 1) :
          sendTimes[c][i + 1] - sendTimes[c][i] >= THROTTLE_INTERVAL_MS

\* a client was sent events at 0 and at +25 ms, and the broadcast the last
\* step made, still at +25 ms, skipped it
C5_Witness ==
    \E c \in Clients :
        /\ bcast # <<>>
        /\ bcast[1].at = 25
        /\ c \in bcast[1].reg \ bcast[1].to
        /\ sendTimes[c] = <<0, 25>>

\* C6: an observer whose handler has ended, however it ended, is not in
\* connected_clients and has no throttle entry, and every throttle entry
\* belongs to an observer whose handler is running.
C6_EndedObserverUnregistered ==
    /\ \A c \in Clients :
          webPc[c] \in {"closed", "failed", "crashed"} =>
             c \notin connected_clients /\ last_web_send_time[c] = NoEntry
    /\ \A c \in Clients :
          last_web_send_time[c] # NoEntry =>
             c \in connected_clients /\ webPc[c] \in {"mpu_send", "recv"}

\* the message is a filter_settings object naming all three fields
FullSettings(m) ==
    /\ m.shape = "object"
    /\ "type" \in m.has
    /\ m.type = "filter_settings"
    /\ SettingKeys \subseteq m.has

\* the message is a filter_settings object naming some, not all, of them
PartialSettings(m) ==
    /\ m.shape = "object"
    /\ "type" \in m.has
    /\ m.type = "filter_settings"
    /\ m.has \cap SettingKeys # {}
    /\ ~(SettingKeys \subseteq m.has)

\* the settings a full message asks for
Requested(m) ==
    [notch_enabled |-> m.notch_enabled, low_pass_cutoff |-> m.low_pass_cutoff,
     high_pass_cutoff |-> m.high_pass_cutoff]

WellFormed(m) == FullSettings(m) /\ DesignedCoefs(Requested(m)).ok

\* C7: after an observer message that is not a well-formed filter_settings
\* object, the observer's handler is still in its receive loop and the
\* observer is still registered.
C7_MalformedKeepsConnection ==
    (webLast.client # 0 /\ ~WellFormed(webLast.msg)) =>
        /\ webPc[webLast.client] = "recv"
        /\ webLast.client \in connected_clients

\* the fields of the message that are named, as a settings dict
Named(m) ==
    [ok |-> TRUE, has |-> m.has \cap SettingKeys,
     notch_enabled |-> m.notch_enabled, low_pass_cutoff |-> m.low_pass_cutoff,
     high_pass_cutoff |-> m.high_pass_cutoff]

\* C8 as stated: a filter_settings message naming only some of the fields
\* gives the named fields their new values, leaves the others, and
\* reinitializes the pipeline.
C8_PartialMessageMerged ==
    [][(webLast'.client # 0 /\ PartialSettings(webLast'.msg)) =>
          /\ filter_settings' = MergeSettings(filter_settings, Named(webLast'.msg))
          /\ zi' = SteadyState(DesignedCoefs(filter_settings'))]_vars

\* C8 as amended: a filter_settings message naming only some of the fields
\* is rejected as a whole, settings, coefficients and delay lines stay as
\* they were and the observer stays connected; a message naming all three
\* gives every field its new value.
C8_PartialMessageRejected ==
    [][/\ (webLast'.client # 0 /\ PartialSettings(webLast'.msg)) =>
             /\ UNCHANGED <<filter_settings, coefs, zi>>
             /\ webPc'[webLast'.client] = "recv"
       /\ (webLast'.client # 0 /\ FullSettings(webLast'.msg)) =>
             filter_settings' = Requested(webLast'.msg)]_vars

\* a partial message was handled while the delay lines carried the history
\* of earlier samples, and they still carry it
C8_Witness ==
    /\ webLast.client # 0
    /\ PartialSettings(webLast.msg)
    /\ webLast.outcome = "caught"
    /\ zi # SteadyState(DesignedCoefs(filter_settings))

Nyquist == SAMPLE_RATE \div 2

\* C9: a settings message with a cutoff at or above Nyquist (the other
\* cutoff being inside the band) is applied, the design completes, and a
\* low-pass cutoff at or above Nyquist is designed at 0.99 of Nyquist.
C9_CutoffAboveNyquistClamped ==
    (/\ webLast.client # 0
     /\ FullSettings(webLast.msg)
     /\ webLast.msg.low_pass_cutoff > 0
     /\ webLast.msg.high_pass_cutoff > 0
     /\ \/ webLast.msg.low_pass_cutoff >= Nyquist
        \/ webLast.msg.high_pass_cutoff >= Nyquist) =>
        /\ webLast.outcome = "applied"
        /\ coefs.lp.ok /\ coefs.hp.ok
        /\ webLast.msg.low_pass_cutoff >= Nyquist => coefs.lp.wn = Frac(99, 100)

\* C10: after a settings update the coefficients and the six delay lines are
\* the ones designed from the new settings alone, whatever samples were
\* processed before, and every delay line has the length of its stage's order.
C10_StateFromSettingsOnly ==
    (webLast.client # 0 /\ FullSettings(webLast.msg)) =>
        LET d == DesignedCoefs(filter_settings)
        IN  /\ d.ok
            /\ coefs = [notch |-> d.notch, lp |-> d.lp, hp |-> d.hp]
            /\ zi = SteadyState(d)
            /\ Len(zi.notch_zi_ch1) = NOTCH_ORDER /\ Len(zi.notch_zi_ch2) = NOTCH_ORDER
            /\ Len(zi.lp_zi_ch1) = FILTER_ORDER /\ Len(zi.lp_zi_ch2) = FILTER_ORDER
            /\ Len(zi.hp_zi_ch1) = FILTER_ORDER /\ Len(zi.hp_zi_ch2) = FILTER_ORDER

\* the fields float() is applied to when the record has a known shape
Parsed(m) == IF m.stats THEN 2..Len(m.parts) ELSE 1..Len(m.parts)

NonNumeric(m) == \E i \in Parsed(m) : ~m.parts[i].num

\* the record is raw with n fields, all numeric
NumericRaw(m, n) == ~m.stats /\ Len(m.parts) = n /\ ~NonNumeric(m)

\* the record is STATS with n fields, the tag included, all numeric
NumericStats(m, n) == m.stats /\ Len(m.parts) = n /\ ~NonNumeric(m)

\* C11: when the sensor connects while observers are registered, an
\* esp32_status "connected" event is broadcast, and when the handler leaves
\* its receive loop while observers are registered, however the connection
\* ended, an esp32_status "disconnected" event is broadcast.
C11_StatusEvents ==
    [][/\ (espPc = "none" /\ espPc' # "none" /\ connected_clients # {}) =>
             \E k \in 1..Len(bcast') :
                 /\ bcast'[k].type = "esp32_status"
                 /\ bcast'[k].status = "connected"
       /\ (espPc = "recv" /\ espPc' \notin {"recv", "stats_send"}
                          /\ connected_clients # {}) =>
             \E k \in 1..Len(bcast') :
                 /\ bcast'[k].type = "esp32_status"
                 /\ bcast'[k].status = "disconnected"]_vars

\* C12: a sensor message with a non-numeric field leaves the sensor handler
\* in its receive loop and the flush task running, appends nothing to the
\* buffer and broadcasts nothing; a valid 2-field message, also right after
\* such a message, is filtered and appended to the buffer.
C12_BadRecordDropped ==
    [][/\ (espLast'.kind # "none" /\ NonNumeric(espLast'.msg)) =>
             /\ espPc' = "recv"
             /\ flushPc' = flushPc /\ flushPc' \in {"sleep", "send"}
             /\ emg_data_buffer' = emg_data_buffer
             /\ nSamples' = nSamples
             /\ bcast' = <<>>
       /\ (espLast'.kind # "none" /\ NumericRaw(espLast'.msg, 2)) =>
             LET f == process_emg_data(filter_settings, coefs, zi,
                                       espLast'.msg.parts[1].val,
                                       espLast'.msg.parts[2].val)
             IN  /\ espPc' = "recv"
                 /\ zi' = f.zi
                 /\ nSamples' = nSamples + 1
                 /\ emg_data_buffer' =
                       LastN(Append(emg_data_buffer,
                                    [id |-> nSamples + 1,
                                     raw1 |-> espLast'.msg.parts[1].val,
                                     filtered1 |-> f.filtered_ch1,
                                     raw2 |-> espLast'.msg.parts[2].val,
                                     filtered2 |-> f.filtered_ch2,
                                     has_angles |-> FALSE, pitch |-> 0, roll |-> 0]),
                             MAX_BUFFER_SIZE)]_vars

\* a valid 2-field message was filtered and buffered right after a message
\* with a non-numeric field was dropped, and the flush task is still running
C12_Witness ==
    /\ espLast.kind = "emg"
    /\ espLast.after = "error"
    /\ NumericRaw(espLast.msg, 2)
    /\ emg_data_buffer # <<>>
    /\ emg_data_buffer[Len(emg_data_buffer)].id = nSamples
    /\ flushPc \in {"sleep", "send"}

\* C13: an all-numeric raw record with 4 or 2 fields appends exactly one
\* sample to the buffer, with pitch and roll exactly when it has 4 fields,
\* and broadcasts nothing; an all-numeric STATS record with 8 or 6 fields is
\* passed to send_to_web_clients exactly once as emg_stats, with the
\* orientation it carries when it has 8 fields, and appends nothing; a record
\* with any other field count changes neither buffer, delay lines nor
\* orientation state, broadcasts nothing and leaves the handler receiving.
C13_RecordShapes ==
    [][espLast'.kind # "none" =>
          LET m == espLast'.msg
              n == Len(m.parts)
          IN  /\ (NumericRaw(m, 4) \/ NumericRaw(m, 2)) =>
                    /\ espLast'.kind = "emg"
                    /\ nSamples' = nSamples + 1
                    /\ Len(emg_data_buffer') = Len(emg_data_buffer) + 1
                    /\ LET d == emg_data_buffer'[Len(emg_data_buffer')]
                       IN  /\ d.id = nSamples + 1
                           /\ d.raw1 = m.parts[1].val /\ d.raw2 = m.parts[2].val
                           /\ d.has_angles = (n = 4)
                           /\ n = 4 => /\ d.pitch = m.parts[3].val
                                       /\ d.roll = m.parts[4].val
                    /\ bcast' = <<>>
              /\ (NumericStats(m, 8) \/ NumericStats(m, 6)) =>
                    /\ espLast'.kind = "stats"
                    /\ Len(bcast') = 1 /\ bcast'[1].type = "emg_stats"
                    /\ has_mpu_data' = (n = 8)
                    /\ n = 8 => /\ pitch_angle' = m.parts[7].val
                                /\ roll_angle' = m.parts[8].val
                    /\ UNCHANGED <<emg_data_buffer, nSamples, zi>>
              /\ ((m.stats /\ n \notin {6, 8}) \/ (~m.stats /\ n \notin {2, 4})) =>
                    /\ espLast'.kind = "ignored"
                    /\ espPc' = "recv"
                    /\ bcast' = <<>>
                    /\ UNCHANGED <<emg_data_buffer, nSamples, zi, has_mpu_data,
                                   pitch_angle, roll_angle>>]_vars

\* a 3-field raw record was ignored after a sample had been buffered
C13_Witness ==
    /\ espLast.kind = "ignored"
    /\ ~espLast.msg.stats /\ Len(espLast.msg.parts) = 3
    /\ espLast.after = "emg"
    /\ Len(emg_data_buffer) = 1
    /\ espPc = "recv"

\* C14: when asyncio.gather returns with failed sends, the broadcast's caller
\* goes on as after a broadcast without failures, every other client the
\* broadcast selected has had its send carried out, no exception reaches
\* the caller, and the connected set is unchanged.
C14_SendFailureIsolated ==
    [][sendFailed'.failed # {} =>
          /\ ~sendFailed'.raised
          /\ connected_clients' = connected_clients
          /\ sendFailed'.task = "esp" =>
                /\ sendFailed'.delivered = pending.esp \ sendFailed'.failed
                /\ espPc' = IF espPc = "disc_send" THEN "join" ELSE "recv"
          /\ sendFailed'.task = "flush" =>
                /\ sendFailed'.delivered = pending.flush \ sendFailed'.failed
                /\ flushPc' \in {"send", "sleep", "final_send", "done"}]_vars

\* a stats broadcast selected both observers, the send to one failed and
\* the send to the other was carried out; both are still registered and the
\* sensor handler is back in its receive loop
C14_Witness ==
    /\ sendFailed.task = "esp"
    /\ sendFailed.failed = {1}
    /\ sendFailed.delivered = {2}
    /\ {1, 2} \subseteq connected_clients
    /\ lastKind = "stats"
    /\ espPc = "recv"

\* C15: the step that handles a stats record calls send_to_web_clients for
\* it, issuing the send to every registered client the throttle lets
\* through whatever the flush task is doing, and leaves the buffer as it was;
\* the buffer holds EMG samples only.
C15_StatsBypassBuffer ==
    [][/\ espLast'.kind = "stats" =>
             /\ emg_data_buffer' = emg_data_buffer
             /\ Len(bcast') = 1
             /\ bcast'[1].type = "emg_stats"
             /\ bcast'[1].at = now
             /\ bcast'[1].to =
                   {c \in connected_clients : ~Throttled(last_web_send_time, c, now)}
             /\ pending'.esp = bcast'[1].to
             /\ flushPc' = flushPc
       /\ \A i \in 1..Len(emg_data_buffer') :
             emg_data_buffer'[i].id \in 1..nSamples']_vars

\* a stats record was sent to the observer while a sample was waiting in the
\* buffer for the next periodic flush
C15_Witness ==
    /\ espLast.kind = "stats"
    /\ bcast[1].to = {1}
    /\ emg_data_buffer # <<>>
    /\ flushPc = "sleep"
    /\ espPc = "stats_send"

\* C16: whenever the sensor handler can process a sample, the low-pass and
\* high-pass coefficients are the ones designed from the current settings,
\* the design of the current settings having succeeded, and every delay line
\* was last written under the coefficients designed from them.
C16_SettingsCoefsStateAgree ==
    espPc = "recv" =>
        LET d == DesignedCoefs(filter_settings)
        IN  /\ d.ok
            /\ coefs.lp = d.lp /\ coefs.hp = d.hp
            /\ \A l \in Lines : ziOf[l] = d[StageOf(l)]

\* C17: every delay line was last written, by a reset or by the filtering of
\* a sample, under the coefficients now in force for its stage and has the
\* length of that stage's order; the step that filters a sample runs all
\* stages of both channels on the coefficients and delay lines of its start
\* and changes no setting or coefficient, and the step that applies a
\* settings message filters no sample.
C17_NoInterleaving ==
    /\ [](\A l \in Lines : /\ ziOf[l] = coefs[StageOf(l)]
                           /\ Len(zi[l]) = coefs[StageOf(l)].order)
    /\ [][/\ espLast'.kind = "emg" =>
                /\ zi' = process_emg_data(filter_settings, coefs, zi,
                                          espLast'.msg.parts[1].val,
                                          espLast'.msg.parts[2].val).zi
                /\ UNCHANGED <<filter_settings, coefs>>
                /\ webLast'.client = 0
          /\ webLast'.client # 0 =>
                /\ espLast'.kind = "none"
                /\ nSamples' = nSamples]_vars

\* a sample was filtered after a settings update had replaced the low-pass
\* coefficients and reset the delay lines
C17_Witness ==
    /\ espLast.kind = "emg"
    /\ nWeb >= 1
    /\ coefs.lp.wn = Frac(99, 100)
    /\ filter_settings.low_pass_cutoff = 825
    /\ nSamples = 2
    /\ zi # SteadyState(DesignedCoefs(filter_settings))

\* C18: while a send to an observer is pending and the sensor connection is
\* open, the sensor handler is in its receive loop, able to read the next
\* sensor message, whether the send came from the device-online event, a
\* stats record or a buffer flush.
C18_SendNeverBlocksIngest ==
    (/\ espPc \in {"conn_send", "recv", "stats_send"}
     /\ pending.esp \cup pending.flush # {}) => espPc = "recv"

\* one channel of process_emg_data written out stage by stage
Chain(fs, cf, x, zn, zl, zh) ==
    LET n == lfilter(cf.notch, x, zn)
        u == IF fs.notch_enabled THEN n.y ELSE x
        l == lfilter(cf.lp, u, zl)
        h == lfilter(cf.hp, l.y, zh)
    IN  [y |-> h.y, notch |-> IF fs.notch_enabled THEN n.zf ELSE zn,
         lp |-> l.zf, hp |-> h.zf]

\* the delay lines with those of channel ch replaced by the steady state
OtherState(z, ch) ==
    IF ch = 1
    THEN [z EXCEPT !.notch_zi_ch1 = lfilter_zi(coefs.notch),
                   !.lp_zi_ch1 = lfilter_zi(coefs.lp),
                   !.hp_zi_ch1 = lfilter_zi(coefs.hp)]
    ELSE [z EXCEPT !.notch_zi_ch2 = lfilter_zi(coefs.notch),
                   !.lp_zi_ch2 = lfilter_zi(coefs.lp),
                   !.hp_zi_ch2 = lfilter_zi(coefs.hp)]

\* C19: the step that filters a raw record gives each channel the output
\* high-pass(low-pass(N(raw))) computed on that channel's own three delay
\* lines, N being the notch stage when notch_enabled and the identity
\* otherwise; each delay line becomes the final state of its own stage, the
\* notch lines stay as they were when the notch is disabled, and a channel's
\* output and delay lines are the same for any input and any delay lines of
\* the other channel.
C19_ChannelsIndependent ==
    [][espLast'.kind = "emg" =>
          LET x1 == espLast'.msg.parts[1].val
              x2 == espLast'.msg.parts[2].val
              c1 == Chain(filter_settings, coefs, x1, zi.notch_zi_ch1,
                          zi.lp_zi_ch1, zi.hp_zi_ch1)
              c2 == Chain(filter_settings, coefs, x2, zi.notch_zi_ch2,
                          zi.lp_zi_ch2, zi.hp_zi_ch2)
              d  == emg_data_buffer'[Len(emg_data_buffer')]
          IN  /\ d.filtered1 = c1.y /\ d.filtered2 = c2.y
              /\ zi' = [notch_zi_ch1 |-> c1.notch, lp_zi_ch1 |-> c1.lp,
                        hp_zi_ch1 |-> c1.hp,
                        notch_zi_ch2 |-> c2.notch, lp_zi_ch2 |-> c2.lp,
                        hp_zi_ch2 |-> c2.hp]
              /\ ~filter_settings.notch_enabled =>
                    /\ zi'.notch_zi_ch1 = zi.notch_zi_ch1
                    /\ zi'.notch_zi_ch2 = zi.notch_zi_ch2
              /\ \A x \in 0..(ZMod - 1) : \A z \in {zi, OtherState(zi, 2)} :
                    LET r == process_emg_data(filter_settings, coefs, z, x1, x)
                    IN  /\ r.filtered_ch1 = c1.y
                        /\ r.zi.notch_zi_ch1 = c1.notch
                        /\ r.zi.lp_zi_ch1 = c1.lp /\ r.zi.hp_zi_ch1 = c1.hp
              /\ \A x \in 0..(ZMod - 1) : \A z \in {zi, OtherState(zi, 1)} :
                    LET r == process_emg_data(filter_settings, coefs, z, x, x2)
                    IN  /\ r.filtered_ch2 = c2.y
                        /\ r.zi.notch_zi_ch2 = c2.notch
                        /\ r.zi.lp_zi_ch2 = c2.lp /\ r.zi.hp_zi_ch2 = c2.hp]_vars

\* a second record was filtered with the notch disabled: the notch delay
\* lines are still the steady state, the other four have moved
C19_Witness ==
    /\ espLast.kind = "emg"
    /\ nSamples = 2
    /\ ~filter_settings.notch_enabled
    /\ zi.notch_zi_ch1 = lfilter_zi(coefs.notch)
    /\ zi.notch_zi_ch2 = lfilter_zi(coefs.notch)
    /\ zi.lp_zi_ch1 # lfilter_zi(coefs.lp)
    /\ zi.lp_zi_ch1 # zi.lp_zi_ch2

\* C20: a sample that a broadcast skipped for a client because of the
\* throttle is never sent to that client later: a skipped event is dropped,
\* not retried and not kept for a later delivery.
C20_SkippedNeverSentLater == retried = {}

\* an emg_stats event is skipped for a registered client whose only earlier
\* send, less than THROTTLE_INTERVAL_MS before, was an emg_data sample
C20_StatsSkippedAfterEmg ==
    \E c \in Clients :
        /\ espLast.kind = "stats"
        /\ c \in bcast[1].reg \ bcast[1].to
        /\ sendTimes[c] = <<0>>
        /\ passedOnce = {1}
        /\ bcast[1].at = 5

\* C21: a sensor message that is dropped because one of its fields is not
\* numeric leaves the orientation-available flag, the stored pitch and roll,
\* the filter delay lines and the buffer as they were before it, whatever
\* the record's shape and whichever field is the bad one.
C21_DroppedRecordChangesNothing ==
    [][(espLast'.kind = "error") =>
           /\ has_mpu_data' = has_mpu_data
           /\ pitch_angle' = pitch_angle
           /\ roll_angle' = roll_angle
           /\ zi' = zi
           /\ emg_data_buffer' = emg_data_buffer]_vars

\* the part of it the receive loop keeps: a dropped record never reaches
\* process_emg_data or the append, and a dropped raw 2-field record, whose
\* conversions all come before its first assignment, changes nothing
C21_DelayLinesAndBufferKept ==
    [][(espLast'.kind = "error") =>
           /\ zi' = zi
           /\ emg_data_buffer' = emg_data_buffer
           /\ nSamples' = nSamples
           /\ RecordShape(espLast'.msg) = "raw2" =>
                 /\ has_mpu_data' = has_mpu_data
                 /\ pitch_angle' = pitch_angle
                 /\ roll_angle' = roll_angle]_vars

====
